---- MODULE Spec2Model ----
(***************************************************************************)
(* Contacts address book: the pydantic shapes of src/schemas.py, the       *)
(* contacts table of src/database/models.py and the repository functions   *)
(* of src/repository/contacts.py.                                          *)
(*                                                                         *)
(* Values.  A Python str is a sequence of one-character strings.  A        *)
(* datetime.date is the tuple <<year, month, day>>.  None is <<>>; an      *)
(* Optional[str] that is not None is the one-element tuple <<s>>.  A row   *)
(* of the contacts table is a record of its columns; user_id NULL is 0.    *)
(* A query result is a sequence of rows; a first() result is a sequence    *)
(* of length 0 (None) or 1.                                                *)
(***************************************************************************)
EXTENDS Integers, Sequences, FiniteSets, TLC

VARIABLES store, nextId, today, last

vars == <<store, nextId, today, last>>

None == <<>>

Min(a, b) == IF a <= b THEN a ELSE b

Max(a, b) == IF a >= b THEN a ELSE b

Rep(c, n) == [i \in 1..n |-> c]

(***************************************************************************)
(* datetime.date                                                           *)
(***************************************************************************)
Year(dt) == dt[1]

Month(dt) == dt[2]

Day(dt) == dt[3]

IsLeap(y) == (y % 4 = 0) /\ ((y % 100 # 0) \/ (y % 400 = 0))

DaysInMonth(y, m) ==
    IF m = 2 THEN (IF IsLeap(y) THEN 29 ELSE 28)
    ELSE IF m \in {4, 6, 9, 11} THEN 30 ELSE 31

IsDate(y, m, d) == y >= 1 /\ m \in 1..12 /\ d >= 1 /\ d <= DaysInMonth(y, m)

NextDay(dt) ==
    IF Day(dt) < DaysInMonth(Year(dt), Month(dt))
    THEN <<Year(dt), Month(dt), Day(dt) + 1>>
    ELSE IF Month(dt) < 12 THEN <<Year(dt), Month(dt) + 1, 1>>
    ELSE <<Year(dt) + 1, 1, 1>>

RECURSIVE AddDays(_, _)
AddDays(dt, n) == IF n = 0 THEN dt ELSE AddDays(NextDay(dt), n - 1)

\* The order of dates (year, then month, then day): ORDER BY on a Date column.
DateLeq(a, b) ==
    \/ Year(a) < Year(b)
    \/ Year(a) = Year(b) /\ Month(a) < Month(b)
    \/ Year(a) = Year(b) /\ Month(a) = Month(b) /\ Day(a) <= Day(b)

DatesOfYear(y) == {dt \in {y} \X (1..12) \X (1..31) : IsDate(dt[1], dt[2], dt[3])}

(***************************************************************************)
(* date.fromisoformat on a YYYY-MM-DD string                               *)
(***************************************************************************)
Digits == <<"0", "1", "2", "3", "4", "5", "6", "7", "8", "9">>

IsDigit(c) == \E i \in 1..10 : Digits[i] = c

DigitVal(c) == (CHOOSE i \in 1..10 : Digits[i] = c) - 1

\* [ok, value]: ValueError (ok = FALSE) unless s is YYYY-MM-DD naming a date.
\* (Python 3.11 and later also read other ISO 8601 spellings, such as
\* YYYYMMDD; none of the strings used here is one.)
FromIsoFormat(s) ==
    IF /\ Len(s) = 10
       /\ s[5] = "-" /\ s[8] = "-"
       /\ \A i \in {1, 2, 3, 4, 6, 7, 9, 10} : IsDigit(s[i])
    THEN LET y == 1000 * DigitVal(s[1]) + 100 * DigitVal(s[2])
                  + 10 * DigitVal(s[3]) + DigitVal(s[4])
             m == 10 * DigitVal(s[6]) + DigitVal(s[7])
             d == 10 * DigitVal(s[9]) + DigitVal(s[10])
         IN  IF IsDate(y, m, d) THEN [ok |-> TRUE, value |-> <<y, m, d>>]
             ELSE [ok |-> FALSE, value |-> None]
    ELSE [ok |-> FALSE, value |-> None]

(***************************************************************************)
(* src/schemas.py: ContactIn and ContactUpdate                             *)
(***************************************************************************)
MaxFirstName == 25

MaxLastName == 50

MaxEmail == 100

MaxPhone == 15

MaxAdditionalData == 500

\* The pre-validator of date_of_birth: a str is "" (None) or an ISO date,
\* anything else is passed through.  [ok, value].
check_date_format(birthday_date) ==
    IF birthday_date = None THEN [ok |-> TRUE, value |-> None]
    ELSE IF birthday_date[1] = <<>> THEN [ok |-> TRUE, value |-> None]
    ELSE FromIsoFormat(birthday_date[1])

\* ContactIn(**raw): [ok, body].  ok = FALSE is pydantic's ValidationError.
ContactIn(raw) ==
    LET dob == check_date_format(raw.date_of_birth)
    IN  IF /\ Len(raw.first_name) <= MaxFirstName
           /\ Len(raw.last_name) <= MaxLastName
           /\ Len(raw.email) <= MaxEmail
           /\ Len(raw.phone_number) <= MaxPhone
           /\ dob.ok
           /\ Len(raw.additional_data) <= MaxAdditionalData
        THEN [ok |-> TRUE,
              body |-> [first_name |-> raw.first_name,
                        last_name |-> raw.last_name,
                        email |-> raw.email,
                        phone_number |-> raw.phone_number,
                        date_of_birth |-> dob.value,
                        additional_data |-> raw.additional_data]]
        ELSE [ok |-> FALSE, body |-> None]

\* The attributes of a ContactUpdate instance.
ContactUpdateFields ==
    {"first_name", "lastname", "email", "phone_number", "date_of_birth",
     "additional_data"}

\* ContactUpdate(**raw): every field Optional with no length bound, a field
\* not given is None.  [ok, body].
ContactUpdate(raw) ==
    LET dob == check_date_format(raw.date_of_birth)
    IN  IF dob.ok
        THEN [ok |-> TRUE,
              body |-> [f \in ContactUpdateFields |->
                          IF f = "date_of_birth" THEN dob.value ELSE raw[f]]]
        ELSE [ok |-> FALSE, body |-> None]

\* Python truth of an Optional[str] or Optional[date]: None and "" are false.
Truthy(v) == v # None /\ v # <<None>>

(***************************************************************************)
(* src/database/models.py: the contacts table                              *)
(***************************************************************************)
ColFirstName == 25

ColLastName == 50

ColEmail == 100

ColPhone == 15

ColAdditionalData == 750

\* The mapped attributes of class Contact.
ContactAttrs ==
    {"id", "first_name", "last_name", "email", "phone_number", "date_of_birth",
     "additional_data", "user_id", "user"}

(***************************************************************************)
(* The session: queries and their pagination                               *)
(***************************************************************************)
\* Every enumeration of a set of rows: a SELECT without ORDER BY returns the
\* rows in an order the database chooses.
RECURSIVE Scan(_)
Scan(rows) ==
    IF rows = {} THEN {<<>>}
    ELSE UNION {{<<r>> \o t : t \in Scan(rows \ {r})} : r \in rows}

\* ORDER BY date_of_birth DESC.
RECURSIVE OrderByDateOfBirth_Descending(_)
OrderByDateOfBirth_Descending(rows) ==
    IF rows = {} THEN {<<>>}
    ELSE UNION {{<<r>> \o t : t \in OrderByDateOfBirth_Descending(rows \ {r})} :
                r \in {x \in rows :
                         \A y \in rows : DateLeq(y.date_of_birth, x.date_of_birth)}}

\* The enumerations ORDER BY date_of_birth allows: ascending by date, rows
\* with equal dates in an order the database chooses.
RECURSIVE OrderByDateOfBirth(_)
OrderByDateOfBirth(rows) ==
    IF rows = {} THEN {<<>>}
    ELSE UNION {{<<r>> \o t : t \in OrderByDateOfBirth(rows \ {r})} :
                r \in {x \in rows :
                         \A y \in rows : DateLeq(x.date_of_birth, y.date_of_birth)}}

\* .offset(skip).limit(limit)
Page(rows, skip, limit) == SubSeq(rows, skip + 1, Min(Len(rows), skip + limit))

\* .filter(Contact.id == contact_id).first(): None or the one row (id is the
\* primary key).
FirstById(db, contact_id) ==
    LET hit == {r \in db : r.id = contact_id}
    IN  IF hit = {} THEN None ELSE <<CHOOSE r \in hit : TRUE>>

(***************************************************************************)
(* src/repository/contacts.py                                              *)
(* Each function is an operator from its arguments and the table to        *)
(* [store, nextId, result, raised]: the table and the autoincrement        *)
(* counter after the call, what the call returns, and the exception it     *)
(* raises ("" when it returns).  A call that raises commits nothing.       *)
(***************************************************************************)
Returns(db, nid, result) ==
    [store |-> db, nextId |-> nid, selected |-> {}, result |-> result,
     raised |-> ""]

Raises(db, nid, exception) ==
    [store |-> db, nextId |-> nid, selected |-> {}, result |-> None,
     raised |-> exception]

\* A query's outcome: the rows its WHERE clause selects and the page returned.
Selects(selected, result) ==
    [selected |-> selected, result |-> result, raised |-> ""]

\* The outcomes the call may have, one for each enumeration the database may
\* give: the query has no WHERE clause and no ORDER BY.
get_contacts(skip, limit, db) ==
    {Selects(db, Page(order, skip, limit)) : order \in Scan(db)}

get_contact(contact_id, db) == FirstById(db, contact_id)

\* The keyword arguments create_contact passes to Contact(...).
CreateKwargs(body) ==
    [k \in {"name", "lastname", "email", "phone", "birthday", "notes"} |->
        CASE k = "name" -> body.first_name
          [] k = "lastname" -> body.last_name
          [] k = "email" -> body.email
          [] k = "phone" -> body.phone_number
          [] k = "birthday" -> body.date_of_birth
          [] k = "notes" -> body.additional_data]

\* The columns declared nullable=False that an INSERT must supply (id is
\* assigned by autoincrement).
NotNullColumns ==
    {"first_name", "last_name", "email", "phone_number", "date_of_birth",
     "additional_data"}

\* Contact(**kwargs), db.add, db.commit, db.refresh.  The declarative
\* constructor raises TypeError for a keyword that is no attribute of the
\* class; the INSERT raises IntegrityError for a NULL in a NOT NULL column.
create_contact(body, db, nid) ==
    LET kwargs == CreateKwargs(body)
    IN  IF \E k \in DOMAIN kwargs : k \notin ContactAttrs
        THEN Raises(db, nid, "TypeError")
        ELSE IF \/ \E c \in NotNullColumns : c \notin DOMAIN kwargs
                \/ kwargs["date_of_birth"] = None
        THEN Raises(db, nid, "IntegrityError")
        ELSE LET contact == [id |-> nid,
                             first_name |-> kwargs["first_name"],
                             last_name |-> kwargs["last_name"],
                             email |-> kwargs["email"],
                             phone_number |-> kwargs["phone_number"],
                             date_of_birth |-> kwargs["date_of_birth"],
                             additional_data |-> kwargs["additional_data"],
                             user_id |-> 0]
             IN  Returns(db \cup {contact}, nid + 1, <<contact>>)

\* remove_contact without its db.delete: the row is returned and stays.
remove_contact_KeepsRow(contact_id, db, nid) ==
    Returns(db, nid, FirstById(db, contact_id))

remove_contact(contact_id, db, nid) ==
    LET contact == FirstById(db, contact_id)
    IN  IF contact # None
        THEN Returns(db \ {contact[1]}, nid, contact)
        ELSE Returns(db, nid, contact)

\* update_contact testing and reading the fields ContactUpdate declares.
UpdateSteps_FieldNames ==
    << [test |-> "first_name", col |-> "first_name", read |-> "first_name"],
       [test |-> "lastname", col |-> "last_name", read |-> "lastname"],
       [test |-> "email", col |-> "email", read |-> "email"],
       [test |-> "phone_number", col |-> "phone_number", read |-> "phone_number"],
       [test |-> "date_of_birth", col |-> "date_of_birth", read |-> "date_of_birth"],
       [test |-> "additional_data", col |-> "additional_data",
        read |-> "additional_data"] >>

\* The six "if body.<test>: contact.<col> = body.<read>" statements of
\* update_contact, in order.
UpdateSteps ==
    << [test |-> "name", col |-> "first_name", read |-> "first_name"],
       [test |-> "lastname", col |-> "last_name", read |-> "last_name"],
       [test |-> "email", col |-> "email", read |-> "email"],
       [test |-> "phone", col |-> "phone_number", read |-> "phone_number"],
       [test |-> "birthday", col |-> "date_of_birth", read |-> "date_of_birth"],
       [test |-> "notes", col |-> "additional_data", read |-> "additional_data"] >>

\* contact.<col> = v, v a truthy Optional[str] or a date.
SetColumn(contact, col, v) ==
    [contact EXCEPT ![col] = IF col = "date_of_birth" THEN v ELSE v[1]]

\* The statements steps[i..] run on contact: [raised, contact].  Reading an
\* attribute the ContactUpdate instance does not have raises AttributeError.
RECURSIVE RunUpdateSteps(_, _, _, _)
RunUpdateSteps(contact, body, steps, i) ==
    IF i > Len(steps) THEN [raised |-> "", contact |-> contact]
    ELSE IF steps[i].test \notin DOMAIN body
    THEN [raised |-> "AttributeError", contact |-> contact]
    ELSE IF ~Truthy(body[steps[i].test])
    THEN RunUpdateSteps(contact, body, steps, i + 1)
    ELSE IF steps[i].read \notin DOMAIN body
    THEN [raised |-> "AttributeError", contact |-> contact]
    ELSE RunUpdateSteps(SetColumn(contact, steps[i].col, body[steps[i].read]),
                        body, steps, i + 1)

update_contact(contact_id, body, db, nid) ==
    LET contact == FirstById(db, contact_id)
    IN  IF contact # None
        THEN LET run == RunUpdateSteps(contact[1], body, UpdateSteps, 1)
             IN  IF run.raised # ""
                 THEN Raises(db, nid, run.raised)
                 ELSE Returns((db \ {contact[1]}) \cup {run.contact}, nid,
                              <<run.contact>>)
        ELSE Returns(db, nid, contact)

(***************************************************************************)
(* ILIKE                                                                   *)
(***************************************************************************)
UpperCase ==
    <<"A", "B", "C", "D", "E", "F", "G", "H", "I", "J", "K", "L", "M", "N",
      "O", "P", "Q", "R", "S", "T", "U", "V", "W", "X", "Y", "Z">>

LowerCase ==
    <<"a", "b", "c", "d", "e", "f", "g", "h", "i", "j", "k", "l", "m", "n",
      "o", "p", "q", "r", "s", "t", "u", "v", "w", "x", "y", "z">>

Lower(c) ==
    IF \E i \in 1..26 : UpperCase[i] = c
    THEN LowerCase[CHOOSE i \in 1..26 : UpperCase[i] = c]
    ELSE c

\* s ILIKE pattern: % matches any run of characters, _ any one character,
\* every other character itself, letters without regard to case.  (No
\* pattern used here holds the escape character.)
RECURSIVE ILike(_, _)
ILike(s, pattern) ==
    IF pattern = <<>> THEN s = <<>>
    ELSE IF Head(pattern) = "%"
    THEN ILike(s, Tail(pattern)) \/ (s # <<>> /\ ILike(Tail(s), pattern))
    ELSE IF s = <<>> THEN FALSE
    ELSE /\ Head(pattern) = "_" \/ Lower(Head(pattern)) = Lower(Head(s))
         /\ ILike(Tail(s), Tail(pattern))

\* The WHERE clause of find_contact for one row.
FindFilter(r, word) ==
    \/ ILike(r.first_name, word)
    \/ ILike(r.last_name, word)
    \/ ILike(r.email, word)

\* The rows find_contact's query selects: word = f"%{keyword}%".
FindSelected(keyword, db) ==
    LET word == <<"%">> \o keyword \o <<"%">>
    IN  {r \in db : FindFilter(r, word)}

\* The outcomes the call may have: the query has no ORDER BY.
find_contact(keyword, skip, limit, db) ==
    LET selected == FindSelected(keyword, db)
    IN  {Selects(selected, Page(order, skip, limit)) : order \in Scan(selected)}

(***************************************************************************)
(* The birthday window                                                     *)
(***************************************************************************)
\* The WHERE clause with today's own day left out (> for >=).
BirthdayFilter_AfterToday(dob, tod, next_week) ==
    \/ /\ Month(tod) = Month(next_week)
       /\ Month(dob) = Month(tod)
       /\ Day(dob) > Day(tod)
       /\ Day(dob) <= Day(next_week)
    \/ /\ Month(tod) # Month(next_week)
       /\ Month(dob) = Month(tod)
       /\ Day(dob) > Day(tod)
    \/ /\ Month(tod) # Month(next_week)
       /\ Month(dob) = Month(next_week)
       /\ Day(dob) <= Day(next_week)

\* The WHERE clause of get_contacts_birthday_for_next_week for one date of
\* birth: the or_ of its three and_ terms.
BirthdayFilter(dob, tod, next_week) ==
    \/ /\ Month(tod) = Month(next_week)
       /\ Month(dob) = Month(tod)
       /\ Day(dob) >= Day(tod)
       /\ Day(dob) <= Day(next_week)
    \/ /\ Month(tod) # Month(next_week)
       /\ Month(dob) = Month(tod)
       /\ Day(dob) >= Day(tod)
    \/ /\ Month(tod) # Month(next_week)
       /\ Month(dob) = Month(next_week)
       /\ Day(dob) <= Day(next_week)

WindowDays == 7

\* A window that ends a day early.
NextWeek_SixDays(tod) == AddDays(tod, WindowDays - 1)

\* today + timedelta(days=7)
NextWeek(tod) == AddDays(tod, WindowDays)

BirthdaySelected(db, tod) ==
    LET next_week == NextWeek(tod)
    IN  {r \in db : BirthdayFilter(r.date_of_birth, tod, next_week)}

\* db.query(Contact).filter(...).order_by("date_of_birth") on the clock's
\* date: the rows selected and the enumerations the ORDER BY allows.
BirthdayQuery(db, tod) ==
    LET selected == BirthdaySelected(db, tod)
    IN  [selected |-> selected, orders |-> OrderByDateOfBirth(selected)]

\* The outcomes the call may have: the ordered query, then OFFSET and LIMIT.
get_contacts_birthday_for_next_week(skip, limit, query) ==
    {Selects(query.selected, Page(order, skip, limit)) : order \in query.orders}

(***************************************************************************)
(* The state: the contacts table, its autoincrement counter, the clock's   *)
(* date, and the last call with the table it ran on and its outcome.       *)
(***************************************************************************)
MaxSeed == 4

MaxSkip == 2

MaxLimit == 2

\* The i-th row the table holds at the start, owned by user i % 3 (0: none).
Seed(i) ==
    [id |-> i,
     first_name |-> Rep("a", Min(i, ColFirstName)),
     last_name |-> IF i % 2 = 1 THEN <<"S", "m", "i", "t", "h">>
                   ELSE <<"J", "o", "n", "e", "s">>,
     email |-> Rep("e", i) \o <<"@", "x">>,
     phone_number |-> Rep("5", Min(3 * i, ColPhone)),
     date_of_birth |-> <<1990 + (i % 2), 1 + (i % 12), i>>,
     additional_data |-> Rep("n", IF i = 1 THEN ColAdditionalData ELSE i),
     user_id |-> i % 3]

Call(op, id, skip, limit, keyword, input, before, out) ==
    [op |-> op, id |-> id, skip |-> skip, limit |-> limit, keyword |-> keyword,
     input |-> input, before |-> before, selected |-> out.selected,
     result |-> out.result, raised |-> out.raised]

NoCall == Call("", 0, 0, 0, <<>>, None, {}, Returns({}, 0, None))

Chars2000_02_29 == <<"2", "0", "0", "0", "-", "0", "2", "-", "2", "9">>

Chars2001_02_29 == <<"2", "0", "0", "1", "-", "0", "2", "-", "2", "9">>

Chars1999_12_31 == <<"1", "9", "9", "9", "-", "1", "2", "-", "3", "1">>

Chars31_12_1999 == <<"3", "1", "-", "1", "2", "-", "1", "9", "9", "9">>

\* What a caller hands to ContactIn before create_contact.
CreateRaws ==
    [first_name : {<<"A", "l">>, Rep("f", MaxFirstName)},
     last_name : {<<"S", "m", "i", "t", "h">>},
     email : {<<"a", "@", "x">>},
     phone_number : {Rep("5", MaxPhone)},
     date_of_birth : {None, <<Chars2000_02_29>>, <<Chars2001_02_29>>},
     additional_data : {<<>>, Rep("n", MaxAdditionalData),
                        Rep("n", MaxAdditionalData + 1)}]

UpdateNothing == [f \in ContactUpdateFields |-> None]

UpdateOne(f, v) == [UpdateNothing EXCEPT ![f] = v]

\* What a caller hands to ContactUpdate before update_contact.
UpdateRaws ==
    {UpdateNothing,
     UpdateOne("first_name", <<<<>>>>),
     UpdateOne("first_name", <<<<"B", "o">>>>),
     UpdateOne("first_name", <<Rep("b", ColFirstName + 1)>>),
     UpdateOne("lastname", <<<<"L", "e", "e">>>>),
     UpdateOne("email", <<<<"b", "@", "y">>>>),
     UpdateOne("date_of_birth", <<Chars1999_12_31>>),
     UpdateOne("additional_data", <<Rep("n", ColAdditionalData + 1)>>)}

Ids == 1..(MaxSeed + 1)

Today0 == <<2024, 1, 28>>

Seeded == {Seed(i) : i \in 1..MaxSeed}

\* The table fully seeded, for the calls that only read it.
InitSeeded ==
    /\ store = Seeded
    /\ nextId = MaxSeed + 1
    /\ today = Today0
    /\ last = NoCall

Init ==
    /\ \E n \in 0..MaxSeed : store = {Seed(i) : i \in 1..n} /\ nextId = n + 1
    /\ today = Today0
    /\ last = NoCall

Commit(out) ==
    /\ store' = out.store
    /\ nextId' = out.nextId

GetContacts ==
    \E skip \in 0..MaxSkip, limit \in 0..MaxLimit :
        \E out \in get_contacts(skip, limit, store) :
            /\ last' = Call("get_contacts", 0, skip, limit, <<>>, None, store, out)
            /\ UNCHANGED <<store, nextId, today>>

GetContact ==
    \E id \in Ids :
        /\ last' = Call("get_contact", id, 0, 0, <<>>, None, store,
                        Selects({}, get_contact(id, store)))
        /\ UNCHANGED <<store, nextId, today>>

CreateContact ==
    \E raw \in CreateRaws :
        /\ ContactIn(raw).ok
        /\ LET body == ContactIn(raw).body
               out == create_contact(body, store, nextId)
           IN  /\ Commit(out)
               /\ last' = Call("create_contact", 0, 0, 0, <<>>, body, store, out)
        /\ UNCHANGED today

RemoveContact ==
    \E id \in Ids :
        LET out == remove_contact(id, store, nextId)
        IN  /\ Commit(out)
            /\ last' = Call("remove_contact", id, 0, 0, <<>>, None, store, out)
            /\ UNCHANGED today

UpdateContact ==
    \E id \in Ids, raw \in UpdateRaws :
        /\ ContactUpdate(raw).ok
        /\ LET body == ContactUpdate(raw).body
               out == update_contact(id, body, store, nextId)
           IN  /\ Commit(out)
               /\ last' = Call("update_contact", id, 0, 0, <<>>, body, store, out)
        /\ UNCHANGED today

Next ==
    \/ GetContacts
    \/ GetContact
    \/ CreateContact
    \/ RemoveContact
    \/ UpdateContact

Spec == Init /\ [][Next]_vars

(***************************************************************************)
(* Search: find_contact on the seeded table                                *)
(***************************************************************************)
MaxKeyword == 2

KeywordChars == {"s", "_", "%", "z"}

Keywords ==
    UNION {[1..n -> KeywordChars] : n \in 0..MaxKeyword}
    \cup {<<"s", "m", "i", "t", "h">>, <<"J", "O", "N">>, <<"s", "_", "i">>}

FindContact ==
    \E keyword \in Keywords, skip \in 0..MaxSkip, limit \in 0..MaxLimit :
        \E out \in find_contact(keyword, skip, limit, store) :
            /\ last' = Call("find_contact", 0, skip, limit, keyword, None, store,
                            out)
            /\ UNCHANGED <<store, nextId, today>>

NextSearch == FindContact

SpecSearch == InitSeeded /\ [][NextSearch]_vars

(***************************************************************************)
(* Upcoming birthdays: a table with a row born on every day of the year,   *)
(* and every date of two years, one of them a leap year, as today          *)
(***************************************************************************)
BookYear(m, d) == IF m = 2 /\ d = 29 THEN 1996 ELSE 1999 + (d % 2)

BookRow(id, dob) ==
    [id |-> id,
     first_name |-> <<"A">>,
     last_name |-> <<"B">>,
     email |-> <<"@">>,
     phone_number |-> <<"5">>,
     date_of_birth |-> dob,
     additional_data |-> <<>>,
     user_id |-> 0]

\* One row for every day of the year, and four more: two that share their
\* date of birth with a row, two born on a row's day in another year.
BirthdayBook ==
    {BookRow(100 * dt[2] + dt[3], <<BookYear(dt[2], dt[3]), dt[2], dt[3]>>) :
        dt \in DatesOfYear(2000)}
    \cup {BookRow(1, <<BookYear(1, 30), 1, 30>>),
          BookRow(2, <<BookYear(3, 2), 3, 2>>),
          BookRow(3, <<2000, 2, 29>>),
          BookRow(4, <<1980, 12, 31>>)}

TodayYears == {2023, 2024}

InitBirthday ==
    /\ store = BirthdayBook
    /\ nextId = 1300
    /\ today \in UNION {DatesOfYear(y) : y \in TodayYears}
    /\ last = NoCall

UpcomingBirthdays ==
    LET query == BirthdayQuery(store, today)
    IN  \E skip \in 0..MaxSkip, limit \in 0..MaxLimit :
            \E out \in get_contacts_birthday_for_next_week(skip, limit, query) :
                /\ last' = Call("get_contacts_birthday_for_next_week", 0, skip,
                                limit, <<>>, None, {}, out)
                /\ UNCHANGED <<store, nextId, today>>

NextBirthday == UpcomingBirthdays

SpecBirthday == InitBirthday /\ [][NextBirthday]_vars

(***************************************************************************)
(* Validation: ContactIn on what a caller hands to it                      *)
(***************************************************************************)
ValidateRaws ==
    [first_name : {Rep("f", MaxFirstName), Rep("f", MaxFirstName + 1)},
     last_name : {Rep("l", MaxLastName), Rep("l", MaxLastName + 1)},
     email : {Rep("e", MaxEmail), Rep("e", MaxEmail + 1)},
     phone_number : {Rep("5", MaxPhone), Rep("5", MaxPhone + 1)},
     date_of_birth : {None, <<<<>>>>, <<Chars2000_02_29>>, <<Chars2001_02_29>>,
                      <<Chars31_12_1999>>},
     additional_data : {<<>>, Rep("n", MaxAdditionalData),
                        Rep("n", MaxAdditionalData + 1),
                        Rep("n", ColAdditionalData),
                        Rep("n", ColAdditionalData + 1)}]

NewContactIn ==
    \E raw \in ValidateRaws :
        LET parsed == ContactIn(raw)
        IN  /\ last' = Call("ContactIn", 0, 0, 0, <<>>, raw, store,
                            IF parsed.ok THEN Selects({}, <<parsed.body>>)
                            ELSE Raises(store, nextId, "ValidationError"))
            /\ UNCHANGED <<store, nextId, today>>

NextValidate == NewContactIn

SpecValidate == InitSeeded /\ [][NextValidate]_vars

(***************************************************************************)
(* The repository's contracts                                              *)
(***************************************************************************)
\* The rows of a table in id (insertion) order.
RECURSIVE InIdOrder(_)
InIdOrder(rows) ==
    IF rows = {} THEN <<>>
    ELSE LET r == CHOOSE x \in rows : \A y \in rows : x.id <= y.id
         IN  <<r>> \o InIdOrder(rows \ {r})

\* A row agrees with a create input in every provided field.
EqualInProvidedFields(r, x) ==
    /\ r.first_name = x.first_name
    /\ r.last_name = x.last_name
    /\ r.email = x.email
    /\ r.phone_number = x.phone_number
    /\ r.date_of_birth = x.date_of_birth
    /\ r.additional_data = x.additional_data

\* C1: create(x) on a valid input x inserts exactly one new Contact, returns it
\* with a fresh id, and a following getById of that id returns a Contact equal
\* to x in every provided field.
C1_CreateThenGetById ==
    last.op = "create_contact" =>
        /\ last.raised = ""
        /\ Len(last.result) = 1
        /\ \A r \in last.before : r.id # last.result[1].id
        /\ store = last.before \cup {last.result[1]}
        /\ get_contact(last.result[1].id, store) = last.result
        /\ EqualInProvidedFields(last.result[1], last.input)

\* The Contact the partial update is to leave: every field present and
\* non-empty in partial overwritten, every other field kept.
Overwritten(r, partial) ==
    [id |-> r.id,
     first_name |-> IF Truthy(partial.first_name) THEN partial.first_name[1]
                    ELSE r.first_name,
     last_name |-> IF Truthy(partial.lastname) THEN partial.lastname[1]
                   ELSE r.last_name,
     email |-> IF Truthy(partial.email) THEN partial.email[1] ELSE r.email,
     phone_number |-> IF Truthy(partial.phone_number) THEN partial.phone_number[1]
                      ELSE r.phone_number,
     date_of_birth |-> IF Truthy(partial.date_of_birth) THEN partial.date_of_birth
                       ELSE r.date_of_birth,
     additional_data |-> IF Truthy(partial.additional_data)
                         THEN partial.additional_data[1] ELSE r.additional_data,
     user_id |-> r.user_id]

\* C2: update(id, partial) on an existing id overwrites exactly the fields
\* present and non-empty in partial, leaves every other field and every other
\* Contact unchanged and returns the Contact without error (so update(id, {})
\* returns the stored Contact unchanged); on an unknown id it returns absent
\* and changes nothing.
C2_UpdateOverwritesGivenFields ==
    last.op = "update_contact" =>
        LET old == FirstById(last.before, last.id)
        IN  /\ last.raised = ""
            /\ IF old = None
               THEN last.result = None /\ store = last.before
               ELSE /\ last.result = <<Overwritten(old[1], last.input)>>
                    /\ store = (last.before \ {old[1]}) \cup {last.result[1]}

\* C3: remove(id) on an existing id deletes exactly that Contact and returns
\* it, a following getById(id) returns absent and all other Contacts are
\* unchanged; on an unknown id it returns absent without an error and leaves
\* the store unchanged.
C3_RemoveDeletesExactlyThat ==
    last.op = "remove_contact" =>
        LET old == FirstById(last.before, last.id)
        IN  /\ last.raised = ""
            /\ last.result = old
            /\ get_contact(last.id, store) = None
            /\ IF old = None THEN store = last.before
               ELSE store = last.before \ {old[1]}

C3_Witness ==
    /\ last.op = "remove_contact"
    /\ last.result # None
    /\ store # {}
    /\ store # last.before

\* C7: list(skip, limit) returns the contiguous slice of all stored Contacts in
\* insertion (id) order that starts after the first skip contacts and has
\* length min(limit, max(0, count - skip)), whatever their owners.
C7_ListIsIdOrderedSlice ==
    last.op = "get_contacts" =>
        /\ last.result = SubSeq(InIdOrder(last.before), last.skip + 1,
                                Min(Cardinality(last.before), last.skip + last.limit))
        /\ Len(last.result) =
               Min(last.limit, Max(0, Cardinality(last.before) - last.skip))

Birthdays == "get_contacts_birthday_for_next_week"

\* The selection rule as the specification words it, next being today + 7.
InWindowRule(dob, tod, next) ==
    IF Month(tod) = Month(next)
    THEN Month(dob) = Month(tod) /\ Day(tod) <= Day(dob) /\ Day(dob) <= Day(next)
    ELSE \/ Month(dob) = Month(tod) /\ Day(dob) >= Day(tod)
         \/ Month(dob) = Month(next) /\ Day(dob) <= Day(next)

\* C4: upcomingBirthdays selects (before pagination) a contact if and only if,
\* with next = today + 7: today and next are in the same month, the birth month
\* is that month and today.day <= birth day <= next.day; or they are not, and
\* the birth month is today's with birth day >= today.day or next's with birth
\* day <= next.day.  The birth year never affects selection.
C4_SelectionRule ==
    last.op = Birthdays =>
        /\ LET next == AddDays(today, 7)
           IN  last.selected =
                   {r \in store : InWindowRule(r.date_of_birth, today, next)}
        /\ \A r \in last.selected, q \in store :
               (/\ Month(r.date_of_birth) = Month(q.date_of_birth)
                /\ Day(r.date_of_birth) = Day(q.date_of_birth))
               => q \in last.selected

\* A window that spans a month end selected rows of both months, two of them
\* born on the same day of different years.
C4_Witness ==
    /\ last.op = Birthdays
    /\ Month(today) # Month(AddDays(today, 7))
    /\ \E r \in last.selected, q \in last.selected :
           /\ Month(r.date_of_birth) = Month(today)
           /\ Month(q.date_of_birth) = Month(AddDays(today, 7))
    /\ \E r \in last.selected, q \in last.selected :
           /\ Month(r.date_of_birth) = Month(q.date_of_birth)
           /\ Day(r.date_of_birth) = Day(q.date_of_birth)
           /\ Year(r.date_of_birth) # Year(q.date_of_birth)

\* The calendar dates d with today <= d <= today + 7.
WindowDates(tod) == {AddDays(tod, k) : k \in 0..7}

\* The birthday (month and day) falls on one of the dates.
OnDateOf(dob, dates) ==
    \E dt \in dates : Month(dt) = Month(dob) /\ Day(dt) = Day(dob)

\* C5 as claimed: for every today, upcomingBirthdays selects exactly the
\* contacts whose birthday (month and day) is the month and day of some
\* calendar date d with today <= d <= today + 7.
C5_ExactlyWindowDates ==
    last.op = Birthdays =>
        LET window == WindowDates(today)
        IN  last.selected = {r \in store : OnDateOf(r.date_of_birth, window)}

\* The window runs from February of a year that is no leap year into March.
CrossesShortFebruary(tod) ==
    Month(tod) = 2 /\ Month(AddDays(tod, 7)) = 3 /\ ~IsLeap(Year(tod))

\* C5 as amended: upcomingBirthdays selects exactly the contacts whose birthday
\* is the month and day of some date d with today <= d <= today + 7, and also,
\* when the window runs from February of a non-leap year into March, the
\* contacts born on 29 February.  With today = 2024-01-28 a birthday on 01-30
\* is selected, and none on 02-05 or 01-20 is.
C5_WindowDatesOrLeapDay ==
    last.op = Birthdays =>
        /\ LET window == WindowDates(today)
               short == CrossesShortFebruary(today)
           IN  last.selected =
                   {r \in store :
                       \/ OnDateOf(r.date_of_birth, window)
                       \/ /\ short
                          /\ Month(r.date_of_birth) = 2 /\ Day(r.date_of_birth) = 29}
        /\ today = <<2024, 1, 28>> =>
               \A r \in store :
                   /\ (Month(r.date_of_birth) = 1 /\ Day(r.date_of_birth) = 30)
                          => r \in last.selected
                   /\ (Month(r.date_of_birth) = 2 /\ Day(r.date_of_birth) = 5)
                          => r \notin last.selected
                   /\ (Month(r.date_of_birth) = 1 /\ Day(r.date_of_birth) = 20)
                          => r \notin last.selected

\* A window from February of a non-leap year into March selected a contact
\* born on 29 February.
C5_Witness ==
    /\ last.op = Birthdays
    /\ CrossesShortFebruary(today)
    /\ \E r \in last.selected :
           Month(r.date_of_birth) = 2 /\ Day(r.date_of_birth) = 29

DateLess(a, b) == DateLeq(a, b) /\ a # b

RowsOf(rows) == {rows[i] : i \in 1..Len(rows)}

\* rows is the slice [skip, skip + limit) of some list of all of selected that
\* is sorted by date of birth ascending.
IsSortedSlice(rows, selected, skip, limit) ==
    /\ Len(rows) = Min(limit, Max(0, Cardinality(selected) - skip))
    /\ RowsOf(rows) \subseteq selected
    /\ \A i \in 1..Len(rows), j \in 1..Len(rows) :
           i < j => /\ rows[i] # rows[j]
                    /\ DateLeq(rows[i].date_of_birth, rows[j].date_of_birth)
    /\ \A i \in 1..Len(rows) :
           /\ Cardinality({x \in selected :
                  DateLess(x.date_of_birth, rows[i].date_of_birth)}) <= skip + i - 1
           /\ Cardinality({x \in selected :
                  DateLeq(x.date_of_birth, rows[i].date_of_birth)}) >= skip + i

\* C9 as claimed, for the pages of two calls in a row: the second call asks
\* for the page that follows the first call's, and the pages are disjoint.
C9_ConsecutivePagesDisjoint ==
    [][(/\ last.op = Birthdays
        /\ last'.op = Birthdays
        /\ last'.skip = last.skip + last.limit)
       => RowsOf(last.result) \cap RowsOf(last'.result) = {}]_vars

NoSharedDate(rows) ==
    \A r \in rows, q \in rows : r.date_of_birth = q.date_of_birth => r = q

\* The one list of rows sorted by date of birth, when no two share a date.
RECURSIVE SortedByDate(_)
SortedByDate(rows) ==
    IF rows = {} THEN <<>>
    ELSE LET r == CHOOSE x \in rows :
                      \A y \in rows : DateLeq(x.date_of_birth, y.date_of_birth)
         IN  <<r>> \o SortedByDate(rows \ {r})

\* C9 as amended: the sequence returned is sorted by birth date ascending and
\* is the slice [skip, skip + limit) of a birth-date-sorted list of all
\* matching contacts; when no two matching contacts share a birth date that
\* list is the only one, so consecutive pages are then disjoint and their
\* concatenation is the full sorted list.
C9_SortedSlice ==
    last.op = Birthdays =>
        /\ IsSortedSlice(last.result, last.selected, last.skip, last.limit)
        /\ NoSharedDate(last.selected) =>
               last.result = Page(SortedByDate(last.selected), last.skip, last.limit)

\* A page past the first held two rows, the earlier-born one with the later
\* day of the year.
C9_Witness ==
    /\ last.op = Birthdays
    /\ last.skip > 0
    /\ Len(last.result) = 2
    /\ Year(last.result[1].date_of_birth) < Year(last.result[2].date_of_birth)
    /\ Month(last.result[1].date_of_birth) > Month(last.result[2].date_of_birth)

(***************************************************************************)
(* The search's contract                                                   *)
(***************************************************************************)
\* keyword occurs in s as a substring, letters without regard to case.
ContainsIgnoringCase(s, keyword) ==
    \E i \in 0..(Len(s) - Len(keyword)) :
        \A j \in 1..Len(keyword) : Lower(s[i + j]) = Lower(keyword[j])

\* C6: search(keyword, skip, limit) returns the page (skip dropped, at most
\* limit kept) of exactly the contacts in which keyword occurs as a
\* case-insensitive substring of the first name, the last name or the email; a
\* contact none of whose three fields contains the keyword is never returned.
C6_SearchIsSubstringMatch ==
    last.op = "find_contact" =>
        LET matching == {r \in last.before :
                            \/ ContainsIgnoringCase(r.first_name, last.keyword)
                            \/ ContainsIgnoringCase(r.last_name, last.keyword)
                            \/ ContainsIgnoringCase(r.email, last.keyword)}
        IN  /\ last.selected = matching
            /\ RowsOf(last.result) \subseteq matching
            /\ Len(last.result) =
                   Min(last.limit, Max(0, Cardinality(matching) - last.skip))

(***************************************************************************)
(* The create input shape's contract                                       *)
(***************************************************************************)
\* C8: the create input shape accepts an input exactly when first name has at
\* most 25 characters, last name at most 50, email at most 100, phone at most
\* 15 and notes at most 750, and the birth date is absent, empty or a valid
\* date; any other input is rejected with a validation error, the store
\* untouched.
C8_AcceptsExactlyWithinBounds ==
    last.op = "ContactIn" =>
        /\ last.raised = "" <=>
               /\ Len(last.input.first_name) <= 25
               /\ Len(last.input.last_name) <= 50
               /\ Len(last.input.email) <= 100
               /\ Len(last.input.phone_number) <= 15
               /\ Len(last.input.additional_data) <= 750
               /\ \/ last.input.date_of_birth = None
                  \/ last.input.date_of_birth = <<None>>
                  \/ FromIsoFormat(last.input.date_of_birth[1]).ok
        /\ last.raised \in {"", "ValidationError"}
        /\ store = last.before

====
